---- MODULE Spec2Model ----
(***************************************************************************)
(* partial_corr.py: partial correlation by the linear-regression method.   *)
(*                                                                         *)
(* Floating-point numbers are modelled as exact rationals <<num, den>> in  *)
(* lowest terms; a correlation coefficient r is modelled by its sign and   *)
(* the rational r^2, or by the NaN value.  scipy's lstsq is modelled as    *)
(* the minimum-norm least-squares solution and scipy's pearsonr by the     *)
(* product-moment formula with 0/0 = NaN.                                  *)
(***************************************************************************)
EXTENDS Integers, Sequences, FiniteSets, TLC

(* ---------------------------- bounds ----------------------------------- *)

\* most lines main reads from standard input
MaxRows == 4

\* most variables of a matrix whose pairs are processed in any order
MaxVarsAny == 3

(* ------------------------ exact arithmetic ----------------------------- *)

\* numpy builds an array when it is created: comparing a function makes TLC
\* build it once instead of re-evaluating its elements at every access
Force(f) == IF f = << >> THEN f ELSE f

Abs(x) == IF x < 0 THEN -x ELSE x

Sign(x) == IF x < 0 THEN -1 ELSE IF x > 0 THEN 1 ELSE 0

RECURSIVE GCD(_, _)
GCD(a, b) == IF b = 0 THEN a ELSE GCD(b, a % b)

\* the rational n/d in lowest terms with a positive denominator (d # 0)
Rat(n, d) ==
    LET g == GCD(Abs(n), Abs(d))
        s == IF d < 0 THEN -1 ELSE 1
    IN  <<(s * n) \div g, (s * d) \div g>>

RZero == <<0, 1>>
ROne == <<1, 1>>

\* products and sums cancel common factors before multiplying
RMul(x, y) ==
    LET g == GCD(Abs(x[1]), y[2])
        h == GCD(Abs(y[1]), x[2])
    IN  <<(x[1] \div g) * (y[1] \div h), (x[2] \div h) * (y[2] \div g)>>
RDiv(x, y) == RMul(x, Rat(y[2], y[1]))
RAdd(x, y) ==
    LET g == GCD(x[2], y[2])
    IN  Rat(x[1] * (y[2] \div g) + y[1] * (x[2] \div g), (x[2] \div g) * y[2])
RSub(x, y) == RAdd(x, <<-y[1], y[2]>>)
RLeq(x, y) == x[1] * y[2] <= y[1] * x[2]

(* ------------------------- numpy arrays -------------------------------- *)
\* A 1-d array of length n is a function on 0..n-1; a 2-d array is a record
\* [shape |-> <<rows, columns>>, a |-> function on 0..rows-1 of 1-d arrays].

Range(n) == 0 .. (n - 1)

RECURSIVE SumTo(_, _)
\* sum of the rationals v[0] .. v[n-1]
SumTo(v, n) == IF n = 0 THEN RZero ELSE RAdd(SumTo(v, n - 1), v[n - 1])

VLen(v) == Cardinality(DOMAIN v)

VSum(v) == SumTo(v, VLen(v))

VSub(x, y) == Force([r \in DOMAIN x |-> RSub(x[r], y[r])])

\* np.dot of two 1-d arrays
VDot(x, y) == VSum(Force([r \in DOMAIN x |-> RMul(x[r], y[r])]))

VIsZero(x) == \A r \in DOMAIN x : x[r] = RZero

\* C[:, k]
Col(C, k) == Force([r \in Range(C.shape[1]) |-> C.a[r][k]])

(* --------------------- stored coefficients ----------------------------- *)
\* A float64 coefficient r: nan, or sgn * sqrt(sq) with sq an exact rational.

NaN == [nan |-> TRUE, sgn |-> 0, sq |-> RZero]

Coef(s, q) == [nan |-> FALSE, sgn |-> s, sq |-> q]

FZero == Coef(0, RZero)
FOne == Coef(1, ROne)
FMinusOne == Coef(-1, ROne)

\* a < b on floats: false whenever an operand is nan
FLt(a, b) ==
    /\ ~a.nan
    /\ ~b.nan
    /\ IF a.sgn # b.sgn THEN a.sgn < b.sgn
       ELSE IF a.sgn = 1 THEN a.sq # b.sq /\ RLeq(a.sq, b.sq)
       ELSE IF a.sgn = -1 THEN a.sq # b.sq /\ RLeq(b.sq, a.sq)
       ELSE FALSE

\* Python's min(a, b) and max(a, b): the first argument unless the second is
\* strictly smaller (larger)
PyMin(a, b) == IF FLt(b, a) THEN b ELSE a
PyMax(a, b) == IF FLt(a, b) THEN b ELSE a

(* --------------------- scipy.linalg.lstsq ------------------------------ *)
\* The predictor matrix C[:, idx] is the sequence of its columns; a
\* coefficient vector is a sequence of rationals of the same length.

\* C[:, idx].dot(beta) for n observations
MatVec(Z, beta, n) ==
    LET RECURSIVE Acc(_, _)
        Acc(r, k) == IF k = 0 THEN RZero
                     ELSE RAdd(Acc(r, k - 1), RMul(Z[k][r], beta[k]))
    IN  Force([r \in Range(n) |-> Acc(r, Len(Z))])

SeqDot(x, y) ==
    LET RECURSIVE Acc(_)
        Acc(k) == IF k = 0 THEN RZero ELSE RAdd(Acc(k - 1), RMul(x[k], y[k]))
    IN  Acc(Len(x))

RECURSIVE Lstsq(_, _)
\* linalg.lstsq(Z, y)[0]: the minimum-norm minimiser of ||y - Z.beta||^2,
\* built column by column (Greville's recursion for the pseudo-inverse)
Lstsq(Z, y) ==
    IF Len(Z) = 0 THEN << >>
    ELSE LET k == Len(Z)
             Zp == SubSeq(Z, 1, k - 1)
             z == Z[k]
             d == Lstsq(Zp, z)
             by == Lstsq(Zp, y)
             c == VSub(z, MatVec(Zp, d, VLen(y)))
             t == IF ~VIsZero(c)
                  THEN RDiv(VDot(c, y), VDot(c, c))
                  ELSE RDiv(SeqDot(d, by), RAdd(ROne, SeqDot(d, d)))
         IN  Force([q \in 1 .. k |-> IF q < k THEN RSub(by[q], RMul(t, d[q])) ELSE t])

(* --------------------- scipy.stats.pearsonr ---------------------------- *)

\* r = max(min(r, 1.0), -1.0)
Clamp(r) == PyMax(PyMin(r, FOne), FMinusOne)

\* stats.pearsonr(x, y)[0]: r_num / r_den clamped to [-1, 1]; the quotient is
\* 0/0 = nan when a variance is zero (r_num is 0 whenever r_den is), and the
\* mean of no observations is nan
Pearsonr(x, y) ==
    LET n == VLen(x)
        mx == RDiv(VSum(x), Rat(n, 1))
        my == RDiv(VSum(y), Rat(n, 1))
        xm == Force([r \in DOMAIN x |-> RSub(x[r], mx)])
        ym == Force([r \in DOMAIN y |-> RSub(y[r], my)])
        r_num == VDot(xm, ym)
        r == IF n = 0 THEN NaN
             ELSE IF VDot(xm, xm) = RZero \/ VDot(ym, ym) = RZero THEN NaN
             ELSE Coef(Sign(r_num[1]),
                       RMul(RDiv(r_num, VDot(xm, xm)), RDiv(r_num, VDot(ym, ym))))
    IN  Clamp(r)

(* ------------------------- partial_corr -------------------------------- *)

\* np.zeros((p, p))
Zeros(p) == Force([a \in Range(p) |-> Force([b \in Range(p) |-> FZero])])

\* faulty variant: idx[j] = False left out
BuildIdxOnlyI(p, i, j) == [[k \in Range(p) |-> TRUE] EXCEPT ![i] = FALSE]

\* idx = np.ones(p, dtype=np.bool); idx[i] = False; idx[j] = False
BuildIdx(p, i, j) == [[k \in Range(p) |-> TRUE] EXCEPT ![i] = FALSE, ![j] = FALSE]

\* faulty variant: C instead of C[:, idx]
SelectAllCols(C, idx) ==
    LET RECURSIVE Upto(_)
        Upto(k) == IF k = 0 THEN << >> ELSE Append(Upto(k - 1), Col(C, k - 1))
    IN  Upto(C.shape[2])

\* C[:, idx]: the columns the mask keeps, in increasing order of index
SelectCols(C, idx) ==
    LET RECURSIVE Upto(_)
        Upto(k) == IF k = 0 THEN << >>
                   ELSE IF idx[k - 1] THEN Append(Upto(k - 1), Col(C, k - 1))
                   ELSE Upto(k - 1)
    IN  Upto(C.shape[2])

\* the two regressions on the predictor columns
Fit(C, idx, i, j) ==
    [beta_i |-> Lstsq(SelectCols(C, idx), Col(C, j)),
     beta_j |-> Lstsq(SelectCols(C, idx), Col(C, i))]

\* faulty variant: each residual formed with the other regression's coefficients
ResidualsSwapped(C, idx, i, j, beta_i, beta_j) ==
    LET Z == SelectCols(C, idx)
        n == C.shape[1]
    IN  [res_j |-> VSub(Col(C, j), MatVec(Z, beta_j, n)),
         res_i |-> VSub(Col(C, i), MatVec(Z, beta_i, n))]

\* the two residual vectors
Residuals(C, idx, i, j, beta_i, beta_j) ==
    LET Z == SelectCols(C, idx)
        n == C.shape[1]
    IN  [res_j |-> VSub(Col(C, j), MatVec(Z, beta_i, n)),
         res_i |-> VSub(Col(C, i), MatVec(Z, beta_j, n))]

\* faulty variant: P_corr[j, i] = corr left out
StoreCorrUpper(P, i, j, corr) == [P EXCEPT ![i][j] = corr]

\* faulty variant: P_corr[i, i] = corr instead of P_corr[i, j] = corr
StoreCorrDiagSlip(P, i, j, corr) == [P EXCEPT ![i][i] = corr, ![j][i] = corr]

\* faulty variant: a nan coefficient is skipped instead of stored
StoreCorrSkipNaN(P, i, j, corr) ==
    IF corr.nan THEN P ELSE [P EXCEPT ![i][j] = corr, ![j][i] = corr]

\* faulty variant: P_corr[i, j:] = corr instead of P_corr[i, j] = corr
StoreCorrRowTail(P, i, j, corr) ==
    [P EXCEPT ![i] = [k \in DOMAIN @ |-> IF k >= j THEN corr ELSE @[k]], ![j][i] = corr]

\* P_corr[i, j] = corr; P_corr[j, i] = corr
StoreCorr(P, i, j, corr) == [P EXCEPT ![i][j] = corr, ![j][i] = corr]

\* P_corr[i, i] = 1
SetDiag(P, i) == [P EXCEPT ![i][i] = FOne]

\* one pass of the inner loop body for the pair (i, j)
PairBody(C, P, i, j) ==
    LET mask == BuildIdx(C.shape[2], i, j)
        fit == Fit(C, mask, i, j)
        res == Residuals(C, mask, i, j, fit.beta_i, fit.beta_j)
        r == Pearsonr(res.res_i, res.res_j)
    IN  [idx |-> mask, beta_i |-> fit.beta_i, beta_j |-> fit.beta_j,
         res_i |-> res.res_i, res_j |-> res.res_j, corr |-> r,
         P_corr |-> StoreCorr(P, i, j, r)]

\* the whole of partial_corr on a 2-d array, in the order of its loops
PartialCorr(C) ==
    LET p == C.shape[2]
        RECURSIVE Inner(_, _, _)
        Inner(P, i, j) == IF j >= p THEN P
                          ELSE Inner(Force(PairBody(C, P, i, j).P_corr), i, j + 1)
        RECURSIVE Outer(_, _)
        Outer(P, i) == IF i >= p THEN P
                       ELSE Outer(Inner(Force(SetDiag(P, i)), i, i + 1), i + 1)
    IN  Outer(Zeros(p), 0)

(* ----------------------------- main ------------------------------------ *)

\* float(c) of a decimal integer field
Float(c) == Rat(c, 1)

\* np.asarray of a list of equally long rows
Asarray(matrix) ==
    IF Len(matrix) = 0 THEN [shape |-> <<0>>, a |-> << >>]
    ELSE [shape |-> <<Len(matrix), Len(matrix[1])>>,
          a |-> [r \in Range(Len(matrix)) |->
                    [c \in Range(Len(matrix[1])) |-> matrix[r + 1][c + 1]]]]

\* matrix.T
Transpose(A) ==
    IF Len(A.shape) < 2 THEN A
    ELSE [shape |-> <<A.shape[2], A.shape[1]>>,
          a |-> [r \in Range(A.shape[2]) |-> [c \in Range(A.shape[1]) |-> A.a[c][r]]]]

\* cols_len = None
None == -1

\* the lines standard input may deliver: a row label and decimal fields
Lines ==
    { [id |-> "A", fields |-> <<1, 0, 2, 1>>],
      [id |-> "B", fields |-> <<0, 1, 1, 2>>],
      [id |-> "C", fields |-> <<2, 1, 0, 0>>],
      [id |-> "A", fields |-> <<1, 1, 1, 1>>],
      [id |-> "E", fields |-> <<1, 2>>],
      [id |-> "F", fields |-> <<3, 1>>] }

\* the positional arguments main may be started with
ArgLists == { << >>, <<"x">>, <<"x", "y">> }

VARIABLES
    args,       \* positional arguments left by parser.parse_args()
    pc,         \* position of the program
    status,     \* exit status of the process
    stderr,     \* messages written to standard error
    nread,      \* lines consumed from standard input
    bad,        \* a row whose field count differs from the first row's was read
    cols_len, matrix, row_ids,   \* main's locals while reading
    calls,      \* calls of partial_corr
    C, p, P_corr, i, j, idx, beta_i, beta_j, res_i, res_j, corr,  \* partial_corr's locals
    visited,    \* the pairs the inner loop has processed and their coefficients, in order
    pending,    \* the pairs not yet processed when pairs run in any order
    Cm, mi, mj, \* main's C, i and j in the output loops
    out         \* lines written to standard output

vars == <<args, pc, status, stderr, nread, bad, cols_len, matrix, row_ids, calls,
          C, p, P_corr, i, j, idx, beta_i, beta_j, res_i, res_j, corr,
          visited, pending, Cm, mi, mj, out>>

reader == <<nread, bad, cols_len, matrix, row_ids>>
engine == <<C, p, P_corr, i, j>>
locals == <<idx, beta_i, beta_j, res_i, res_j, corr>>
anyord == <<pending>>
writer == <<Cm, mi, mj, out>>

EmptyArray == [shape |-> <<0>>, a |-> << >>]

Init ==
    /\ args \in ArgLists
    /\ pc = "start"
    /\ status = 0
    /\ stderr = << >>
    /\ nread = 0
    /\ bad = FALSE
    /\ cols_len = None
    /\ matrix = << >>
    /\ row_ids = << >>
    /\ calls = 0
    /\ C = EmptyArray
    /\ p = 0
    /\ P_corr = << >>
    /\ i = 0
    /\ j = 0
    /\ idx = << >>
    /\ beta_i = << >>
    /\ beta_j = << >>
    /\ res_i = << >>
    /\ res_j = << >>
    /\ corr = FZero
    /\ visited = << >>
    /\ pending = {}
    /\ Cm = << >>
    /\ mi = 0
    /\ mj = 0
    /\ out = << >>

\* faulty variant: len(args) > 1
UnexpectedMany(a) == Len(a) > 1

\* len(args) != 0
Unexpected(a) == Len(a) # 0

\* exit('Unexpected argument number.')
UsageExit ==
    /\ pc = "start"
    /\ Unexpected(args)
    /\ pc' = "exit"
    /\ status' = 1
    /\ stderr' = Append(stderr, "Unexpected argument number.")
    /\ UNCHANGED <<args, reader, calls, engine, locals, visited, anyord, writer>>

BeginRead ==
    /\ pc = "start"
    /\ ~Unexpected(args)
    /\ pc' = "read"
    /\ UNCHANGED <<args, status, stderr, reader, calls, engine, locals, visited,
                   anyord, writer>>

\* faulty variant: assert cols_len <= len(cols)
SameLenAtLeast(n, cols) == n <= Len(cols)

\* assert cols_len == len(cols)
SameLen(n, cols) == n = Len(cols)

\* one pass of the loop over stdin
ReadLine(line) ==
    /\ pc = "read"
    /\ nread < MaxRows
    /\ LET cols == [q \in 1 .. Len(line.fields) |-> Float(line.fields[q])]
           n == IF cols_len = None THEN Len(cols) ELSE cols_len
       IN  /\ nread' = nread + 1
           /\ row_ids' = Append(row_ids, line.id)
           /\ cols_len' = n
           /\ bad' = (bad \/ (matrix # << >> /\ Len(cols) # Len(matrix[1])))
           /\ IF SameLen(n, cols)
              THEN /\ matrix' = Append(matrix, cols)
                   /\ UNCHANGED <<pc, status, stderr>>
              ELSE /\ pc' = "error"
                   /\ status' = 1
                   /\ stderr' = Append(stderr, "AssertionError")
                   /\ UNCHANGED matrix
    /\ UNCHANGED <<args, calls, engine, locals, visited, anyord, writer>>

\* end of stdin: matrix = np.asarray(matrix).T and the call of partial_corr
EndOfInput ==
    /\ pc = "read"
    /\ C' = Transpose(Asarray(matrix))
    /\ calls' = calls + 1
    /\ pc' = "entry"
    /\ UNCHANGED <<args, status, stderr, reader, p, P_corr, i, j, locals, visited,
                   anyord, writer>>

\* p = C.shape[1]; P_corr = np.zeros((p, p)); the outer loop starts
Enter ==
    /\ pc = "entry"
    /\ IF Len(C.shape) < 2
       THEN /\ pc' = "error"
            /\ status' = 1
            /\ stderr' = Append(stderr, "IndexError")
            /\ UNCHANGED <<p, P_corr, i>>
       ELSE /\ p' = C.shape[2]
            /\ P_corr' = Zeros(C.shape[2])
            /\ i' = 0
            /\ pc' = "outer"
            /\ UNCHANGED <<status, stderr>>
    /\ UNCHANGED <<args, reader, calls, C, j, locals, visited, anyord, writer>>

\* for i in range(p): P_corr[i, i] = 1
OuterIter ==
    /\ pc = "outer"
    /\ i < p
    /\ P_corr' = SetDiag(P_corr, i)
    /\ j' = i + 1
    /\ pc' = "inner"
    /\ UNCHANGED <<args, status, stderr, reader, calls, C, p, i, locals, visited,
                   anyord, writer>>

\* for j in range(i+1, p): the body for the pair (i, j)
InnerIter ==
    /\ pc = "inner"
    /\ j < p
    /\ \E b \in {PairBody(C, P_corr, i, j)} :
           /\ idx' = b.idx
           /\ beta_i' = b.beta_i
           /\ beta_j' = b.beta_j
           /\ res_i' = b.res_i
           /\ res_j' = b.res_j
           /\ corr' = b.corr
           /\ P_corr' = b.P_corr
           /\ visited' = Append(visited, [i |-> i, j |-> j, corr |-> b.corr])
    /\ j' = j + 1
    /\ UNCHANGED <<args, pc, status, stderr, reader, calls, C, p, i, anyord, writer>>

\* the inner loop is exhausted
InnerEnd ==
    /\ pc = "inner"
    /\ j >= p
    /\ i' = i + 1
    /\ pc' = "outer"
    /\ UNCHANGED <<args, status, stderr, reader, calls, C, p, P_corr, j, locals,
                   visited, anyord, writer>>

\* return P_corr, into main's C
Return ==
    /\ pc = "outer"
    /\ i >= p
    /\ Cm' = P_corr
    /\ mi' = 0
    /\ mj' = 0
    /\ pc' = "print"
    /\ UNCHANGED <<args, status, stderr, reader, calls, engine, locals, visited,
                   anyord, out>>

\* faulty variant: if j>=i
EmitsDiagonal(a, b) == b >= a

\* if j>i
Emits(a, b) == b > a

\* one pass of the inner output loop
PrintIter ==
    /\ pc = "print"
    /\ mi < Len(row_ids)
    /\ mj < Len(row_ids)
    /\ out' = IF Emits(mi, mj)
              THEN Append(out, [l |-> row_ids[mi + 1], k |-> row_ids[mj + 1],
                                v |-> Cm[mi][mj]])
              ELSE out
    /\ mj' = mj + 1
    /\ UNCHANGED <<args, pc, status, stderr, reader, calls, engine, locals, visited,
                   anyord, Cm, mi>>

\* the inner output loop is exhausted
PrintRowEnd ==
    /\ pc = "print"
    /\ mi < Len(row_ids)
    /\ mj >= Len(row_ids)
    /\ mi' = mi + 1
    /\ mj' = 0
    /\ UNCHANGED <<args, pc, status, stderr, reader, calls, engine, locals, visited,
                   anyord, Cm, out>>

\* main returns
Finish ==
    /\ pc = "print"
    /\ mi >= Len(row_ids)
    /\ pc' = "done"
    /\ UNCHANGED <<args, status, stderr, reader, calls, engine, locals, visited,
                   anyord, writer>>

Next ==
    \/ UsageExit
    \/ BeginRead
    \/ \E line \in Lines : ReadLine(line)
    \/ EndOfInput
    \/ Enter
    \/ OuterIter
    \/ InnerIter
    \/ InnerEnd
    \/ Return
    \/ PrintIter
    \/ PrintRowEnd
    \/ Finish

Spec == Init /\ [][Next]_vars

(* ------------- the pairs of partial_corr in any order ------------------ *)

\* the rows a matrix is built from when its pairs are processed in any order
AnyRows == { <<1, 0, 2, 1>>, <<0, 1, 1, 2>>, <<1, 1, 1, 1>> }

\* the pairs (a, b), a < b, of the double loop
Pairs(n) == { pr \in Range(n) \X Range(n) : pr[1] < pr[2] }

InitAny ==
    /\ \E m \in 1 .. MaxVarsAny : \E rows \in [1 .. m -> AnyRows] :
          /\ matrix = [r \in 1 .. m |-> [q \in 1 .. Len(rows[r]) |-> Float(rows[r][q])]]
          /\ C = Transpose(Asarray(matrix))
          /\ p = m
          /\ pending = Pairs(m)
    /\ args = << >>
    /\ pc = "anystart"
    /\ status = 0
    /\ stderr = << >>
    /\ nread = 0
    /\ bad = FALSE
    /\ cols_len = None
    /\ row_ids = << >>
    /\ calls = 1
    /\ P_corr = Zeros(p)
    /\ i = 0
    /\ j = 0
    /\ idx = << >>
    /\ beta_i = << >>
    /\ beta_j = << >>
    /\ res_i = << >>
    /\ res_j = << >>
    /\ corr = FZero
    /\ visited = << >>
    /\ Cm = << >>
    /\ mi = 0
    /\ mj = 0
    /\ out = << >>

RECURSIVE SetDiagUpTo(_, _)
\* P_corr[i, i] = 1 for i in range(n)
SetDiagUpTo(P, n) == IF n = 0 THEN P ELSE SetDiag(SetDiagUpTo(P, n - 1), n - 1)

\* the diagonal writes of the outer loop
AnyDiag ==
    /\ pc = "anystart"
    /\ P_corr' = SetDiagUpTo(P_corr, p)
    /\ pc' = "any"
    /\ UNCHANGED <<args, status, stderr, reader, calls, C, p, i, j, locals, visited,
                   anyord, writer>>

\* the loop body for a pair that has not been processed yet
AnyPair(a, b) ==
    /\ pc = "any"
    /\ <<a, b>> \in pending
    /\ P_corr' = PairBody(C, P_corr, a, b).P_corr
    /\ pending' = pending \ {<<a, b>>}
    /\ UNCHANGED <<args, pc, status, stderr, reader, calls, C, p, i, j, locals,
                   visited, writer>>

\* every pair has been processed: return P_corr
AnyReturn ==
    /\ pc = "any"
    /\ pending = {}
    /\ Cm' = P_corr
    /\ pc' = "anydone"
    /\ UNCHANGED <<args, status, stderr, reader, calls, engine, locals, visited,
                   anyord, mi, mj, out>>

NextAny ==
    \/ AnyDiag
    \/ \E pr \in pending : AnyPair(pr[1], pr[2])
    \/ AnyReturn

SpecAnyOrder == InitAny /\ [][NextAny]_vars

(* ============================ properties =============================== *)

\* the program has returned from partial_corr into main
Returned == pc \in {"print", "done"}

\* the pair the inner loop has just processed is (i, j - 1)
JustProcessed == pc = "inner" /\ j > i + 1

\* all entries of a 1-d array are equal
IsConst(v) == \A r \in DOMAIN v : \A q \in DOMAIN v : v[r] = v[q]

OffDiag(n) == { pr \in Range(n) \X Range(n) : pr[1] # pr[2] }

\* C1: the matrix partial_corr returns is symmetric; a NaN coefficient sits in
\* both cells of its pair.
C1_Symmetric ==
    Returned =>
        /\ DOMAIN Cm = Range(p)
        /\ \A a \in Range(p) : DOMAIN Cm[a] = Range(p)
        /\ \A a \in Range(p) : \A b \in Range(p) : Cm[a][b] = Cm[b][a]

C1_Witness ==
    /\ pc = "done"
    /\ p >= 3
    /\ \E pr \in OffDiag(p) : Cm[pr[1]][pr[2]].nan
    /\ \E pr \in OffDiag(p) : ~Cm[pr[1]][pr[2]].nan /\ Cm[pr[1]][pr[2]].sgn # 0

\* C2: the diagonal of the returned matrix is 1, and once the outer loop has
\* written P_corr[a][a] = 1 no pair step changes it.
C2_UnitDiagonal ==
    /\ pc = "inner" => \A a \in 0 .. i : P_corr[a][a] = FOne
    /\ pc = "outer" => \A a \in 0 .. (i - 1) : P_corr[a][a] = FOne
    /\ Returned => \A a \in Range(p) : Cm[a][a] = FOne

C2_Witness ==
    /\ pc = "done"
    /\ p >= 3
    /\ \E pr \in OffDiag(p) : Cm[pr[1]][pr[2]].nan
    /\ \E pr \in OffDiag(p) : Cm[pr[1]][pr[2]].sgn = -1
    /\ \E pr \in OffDiag(p) : Cm[pr[1]][pr[2]] = FOne
    /\ \A a \in Range(p) : Cm[a][a] = FOne

\* position of the pair (a, b), a < b, among the pairs of m rows in
\* lexicographic order, counted from 1
Rank(a, b, m) == a * m - ((a * (a + 1)) \div 2) + (b - a)

\* C3: for m well-formed rows main writes m*(m-1)/2 lines, the line of the
\* pair (a, b), a < b, at its lexicographic position with label a, label b and
\* P[a][b], and column a of the matrix given to partial_corr is input row a.
C3_OutputLines ==
    (pc \in {"done", "error"} /\ ~bad) =>
        LET m == Len(row_ids)
        IN  /\ Len(out) = (m * (m - 1)) \div 2
            /\ pc = "done" =>
                  /\ \A pr \in Pairs(m) :
                        out[Rank(pr[1], pr[2], m)] =
                            [l |-> row_ids[pr[1] + 1], k |-> row_ids[pr[2] + 1],
                             v |-> P_corr[pr[1]][pr[2]]]
                  /\ \A a \in Range(m) : \A r \in Range(C.shape[1]) :
                        C.a[r][a] = matrix[a + 1][r + 1]

C3_Witness ==
    /\ pc = "done"
    /\ row_ids = <<"A", "B", "A", "C">>
    /\ Len(out) = 6
    /\ out[4].l = "B" /\ out[4].k = "A"

\* C4: once a row whose field count differs from the first row's has been
\* read, main has failed, partial_corr has not been called and nothing has been
\* written.
C4_RaggedInputFails ==
    bad => /\ pc = "error"
           /\ status # 0
           /\ calls = 0
           /\ out = << >>
           /\ Len(matrix) = nread - 1

C4_Witness ==
    /\ bad
    /\ pc = "error"
    /\ Len(matrix) >= 2

\* C5: started with positional arguments, main reads no line, never calls
\* partial_corr and writes nothing; when it has exited the status is non-zero
\* and a message has been written.
C5_UsageError ==
    Len(args) > 0 =>
        /\ pc \in {"start", "exit"}
        /\ nread = 0
        /\ calls = 0
        /\ out = << >>
        /\ pc = "exit" => (status # 0 /\ Len(stderr) = 1)

C5_Witness ==
    /\ pc = "exit"
    /\ Len(args) = 1

\* the textbook Pearson coefficient of two integer-valued columns
OrdinaryPearson(x, y) ==
    LET n == VLen(x)
        RECURSIVE S(_, _, _)
        S(u, v, k) == IF k = 0 THEN 0 ELSE S(u, v, k - 1) + u[k - 1][1] * v[k - 1][1]
        one == [r \in Range(n) |-> <<1, 1>>]
        sxy == n * S(x, y, n) - S(x, one, n) * S(y, one, n)
        sxx == n * S(x, x, n) - S(x, one, n) * S(x, one, n)
        syy == n * S(y, y, n) - S(y, one, n) * S(y, one, n)
    IN  IF sxx * syy = 0 THEN NaN
        ELSE Coef(Sign(sxy), Rat(sxy * sxy, sxx * syy))

\* C6: with exactly two columns the mask of the pair (0, 1) keeps no column,
\* the residuals are the columns themselves, and P[0][1] is the ordinary
\* Pearson coefficient of the two columns.
C6_TwoColumns ==
    /\ (JustProcessed /\ p = 2) =>
          /\ \A k \in Range(p) : ~idx[k]
          /\ beta_i = << >> /\ beta_j = << >>
          /\ res_i = Col(C, 0)
          /\ res_j = Col(C, 1)
          /\ P_corr[0][1] = OrdinaryPearson(Col(C, 0), Col(C, 1))
    /\ (Returned /\ p = 2) =>
          /\ status = 0
          /\ Cm[0][1] = OrdinaryPearson(Col(C, 0), Col(C, 1))

C6_Witness ==
    /\ pc = "done"
    /\ p = 2
    /\ ~Cm[0][1].nan
    /\ Cm[0][1].sgn # 0
    /\ Cm[0][1] # FOne

\* C7: a pair whose residuals have zero variance stores NaN in its own two
\* cells; the loops never fail, process every pair, and on return every pair's
\* cells hold the coefficient computed for that pair.
C7_DegeneratePairIsolated ==
    /\ JustProcessed =>
          ((IsConst(res_i) \/ IsConst(res_j)) =>
              /\ corr = NaN
              /\ P_corr[i][j - 1] = NaN
              /\ P_corr[j - 1][i] = NaN)
    /\ (calls > 0 /\ Len(C.shape) = 2) => (pc # "error" /\ status = 0)
    /\ Returned =>
          /\ Len(visited) = (p * (p - 1)) \div 2
          /\ \A k \in 1 .. Len(visited) :
                /\ Cm[visited[k].i][visited[k].j] = visited[k].corr
                /\ Cm[visited[k].j][visited[k].i] = visited[k].corr

C7_Witness ==
    /\ pc = "done"
    /\ p = 4
    /\ \E k \in 1 .. Len(visited) : visited[k].corr = NaN
    /\ \E k \in 1 .. Len(visited) :
          /\ ~visited[k].corr.nan
          /\ visited[k].corr.sgn # 0
          /\ visited[k].corr.sq # ROne
          \* the two controlling columns of this pair are equal: rank 1
          /\ \E a \in Range(p) : \E b \in Range(p) :
                /\ a < b
                /\ {a, b} \cap {visited[k].i, visited[k].j} = {}
                /\ Col(C, a) = Col(C, b)

\* C8: for every pair the mask keeps exactly the columns other than i and j,
\* p - 2 of them, and both regressions have p - 2 coefficients.
C8_ControllingSet ==
    JustProcessed =>
        /\ DOMAIN idx = Range(p)
        /\ { k \in Range(p) : idx[k] } = Range(p) \ {i, j - 1}
        /\ Cardinality({ k \in Range(p) : idx[k] }) = p - 2
        /\ Len(beta_i) = p - 2
        /\ Len(beta_j) = p - 2

C8_Witness ==
    /\ pc = "inner"
    /\ p = 4
    /\ i = 1
    /\ j = 3
    /\ idx[0] /\ idx[3]

\* C9: each residual is the residual of its own variable's regression: it is
\* orthogonal to every predictor column (the normal equations of that fit).
C9_OwnRegression ==
    JustProcessed =>
        LET Z == SelectCols(C, idx)
        IN  \A k \in 1 .. Len(Z) :
                /\ VDot(Z[k], res_j) = RZero
                /\ VDot(Z[k], res_i) = RZero

C9_Witness ==
    /\ JustProcessed
    /\ p = 4
    /\ beta_i # beta_j
    /\ ~VIsZero(res_i)
    /\ ~VIsZero(res_j)
    /\ ~corr.nan

\* C10: processing the pairs in any order gives the matrix the loops give in
\* their own order; a pair that has not been processed has its cells untouched.
C10_OrderIndependent ==
    /\ pc = "any" => \A pr \in pending :
          /\ P_corr[pr[1]][pr[2]] = FZero
          /\ P_corr[pr[2]][pr[1]] = FZero
    /\ pc = "anydone" => Cm = PartialCorr(C)

C10_Witness ==
    /\ pc = "anydone"
    /\ p = 3
    /\ \E pr \in OffDiag(p) : Cm[pr[1]][pr[2]].nan
    /\ \E pr \in OffDiag(p) : ~Cm[pr[1]][pr[2]].nan /\ Cm[pr[1]][pr[2]].sgn # 0

====
